---- MODULE Spec2Model ----
(***************************************************************************)
(* A model of index.js: the Express route /character/:character, the       *)
(* view-source reconstruction, the category mapper, the job-item parser    *)
(* and the aggregation loop over the h4 headers.                           *)
(*                                                                         *)
(* Text is a sequence of one-character strings.  The three characters of   *)
(* the corrupted en dash are written by their code points.  A page body is *)
(* a sequence of lexemes: a tag, a character reference or one character.   *)
(***************************************************************************)
EXTENDS Integers, Sequences, FiniteSets, TLC

VARIABLES
    \* ---- the route handler, one entry per request in the server ----
    pc,            \* where each request's handler is
    params,        \* req.params.character of each request
    url,           \* the handler's local url
    upstream,      \* how the request's axios.get settled
    res,           \* the response sent for the request
    fetchStarted,  \* the requests for which axios.get was called
    \* ---- parseLi, one callback per child div ----
    li, divIdx, parsed, parsePc,
    \* ---- the h4s.each loop of the handler ----
    doc, h4Idx, out, origins,
    \* ---- reconstructFromViewSource, one cellRegex.exec per step ----
    html, lastIndex, cells, rawHtml, reconPc

vars == <<pc, params, url, upstream, res, fetchStarted,
          li, divIdx, parsed, parsePc,
          doc, h4Idx, out, origins,
          html, lastIndex, cells, rawHtml, reconPc>>

httpVars  == <<pc, params, url, upstream, res, fetchStarted>>
parseVars == <<li, divIdx, parsed, parsePc>>
aggVars   == <<doc, h4Idx, out, origins>>
reconVars == <<html, lastIndex, cells, rawHtml, reconPc>>

\* JavaScript's null (and an attribute that is undefined).
NULL == "null"

(***************************************************************************)
(* Characters                                                              *)
(***************************************************************************)
Digits == {"0", "1", "2", "3", "4", "5", "6", "7", "8", "9"}

Letters ==
    {"a", "b", "c", "d", "e", "f", "g", "h", "i", "j", "k", "l", "m",
     "n", "o", "p", "q", "r", "s", "t", "u", "v", "w", "x", "y", "z",
     "A", "B", "C", "D", "E", "F", "G", "H", "I", "J", "K", "L", "M",
     "N", "O", "P", "Q", "R", "S", "T", "U", "V", "W", "X", "Y", "Z"}

\* What \s matches, among the characters the model uses.
WhiteSpace == {" ", "\t", "\n"}

DigitVal(c) ==
    CASE c = "0" -> 0 [] c = "1" -> 1 [] c = "2" -> 2 [] c = "3" -> 3
      [] c = "4" -> 4 [] c = "5" -> 5 [] c = "6" -> 6 [] c = "7" -> 7
      [] c = "8" -> 8 [] c = "9" -> 9

\* parseInt(s, 10) of a text of decimal digits.
RECURSIVE parseInt(_)
parseInt(s) ==
    IF s = <<>> THEN 0
    ELSE 10 * parseInt(SubSeq(s, 1, Len(s) - 1)) + DigitVal(s[Len(s)])

\* s.replace(/,/g, "")
RECURSIVE StripCommas(_)
StripCommas(s) ==
    IF s = <<>> THEN <<>>
    ELSE IF Head(s) = "," THEN StripCommas(Tail(s))
    ELSE <<Head(s)>> \o StripCommas(Tail(s))

\* The last index j >= i - 1 with t[i..j] all in S: a greedy S* from i.
RECURSIVE RunEnd(_, _, _)
RunEnd(t, i, S) ==
    IF i <= Len(t) /\ t[i] \in S THEN RunEnd(t, i + 1, S) ELSE i - 1

\* s.trim()
trim(s) ==
    LET keep == {i \in 1..Len(s) : s[i] \notin WhiteSpace}
    IN  IF keep = {} THEN <<>>
        ELSE SubSeq(s, CHOOSE i \in keep : \A j \in keep : i <= j,
                       CHOOSE i \in keep : \A j \in keep : i >= j)

\* s.replace(/\s+/g, " ")
RECURSIVE CollapseSpace(_)
CollapseSpace(s) ==
    IF s = <<>> THEN <<>>
    ELSE IF Head(s) \in WhiteSpace
         THEN <<" ">> \o CollapseSpace(SubSeq(s, RunEnd(s, 1, WhiteSpace) + 1, Len(s)))
         ELSE <<Head(s)>> \o CollapseSpace(Tail(s))

norm(s) == trim(CollapseSpace(s))

(***************************************************************************)
(* parseLi                                                                 *)
(***************************************************************************)
\* The characters outside ASCII, each written by its code point.
CodePoints == {"U+00E2", "U+20AC", "U+201C"}

\* The two placeholder texts: "-" and the en dash read in the wrong encoding.
Mojibake == <<"U+00E2", "U+20AC", "U+201C">>

isDash(s) == s = <<"-">> \/ s = Mojibake

\* /^\d{1,3}$/.test(raw)
IsLevelText(raw) ==
    /\ Len(raw) \in 1..3
    /\ \A i \in 1..Len(raw) : raw[i] \in Digits

\* /[A-Za-z]/.test(raw)
HasLetter(raw) == \E i \in 1..Len(raw) : raw[i] \in Letters

\* The match of /(\d[\d,]*)\s*\/\s*(\d[\d,]*)/ that starts at s, if there is one.
\* Every quantifier is followed by a character outside its class, so only the
\* longest run can lead to a match.
ExpMatchAt(t, s) ==
    LET e1 == RunEnd(t, s + 1, Digits \cup {","})
        w1 == RunEnd(t, e1 + 1, WhiteSpace)
        w2 == RunEnd(t, w1 + 2, WhiteSpace)
        e2 == RunEnd(t, w2 + 2, Digits \cup {","})
    IN  IF /\ t[s] \in Digits
           /\ w1 + 1 <= Len(t) /\ t[w1 + 1] = "/"
           /\ w2 + 1 <= Len(t) /\ t[w2 + 1] \in Digits
        THEN [found |-> TRUE, m1 |-> SubSeq(t, s, e1), m2 |-> SubSeq(t, w2 + 1, e2)]
        ELSE [found |-> FALSE, m1 |-> <<>>, m2 |-> <<>>]

\* raw.match(...): the leftmost match.
ExpMatch(t) ==
    LET starts == {s \in 1..Len(t) : ExpMatchAt(t, s).found}
    IN  IF starts = {} THEN [found |-> FALSE, m1 |-> <<>>, m2 |-> <<>>]
        ELSE ExpMatchAt(t, CHOOSE s \in starts : \A u \in starts : s <= u)

\* a || b || c || d on attribute values and the name; an absent or empty
\* attribute is <<>>.
FirstTruthy(seq) ==
    LET some == {i \in 1..Len(seq) : seq[i] # <<>>}
    IN  IF some = {} THEN seq[Len(seq)]
        ELSE seq[CHOOSE i \in some : \A j \in some : i <= j]

\* The callback with any non-empty text taken as the name.
DivStepAnyName(st, div) ==
    LET raw == norm(div.text)
        m   == ExpMatch(raw)
    IN  IF st.level = 0 /\ IsLevelText(raw)
        THEN [st EXCEPT !.level = parseInt(raw)]
        ELSE IF m.found
        THEN [st EXCEPT !.exp = parseInt(StripCommas(m.m1)),
                        !.max = parseInt(StripCommas(m.m2))]
        ELSE IF st.name = <<>> /\ raw # <<>>
        THEN [st EXCEPT !.name = raw,
                        !.tooltip = FirstTruthy(<<div.data_tooltip, div.title,
                                                  div.aria_label, raw>>)]
        ELSE st

\* The callback of $li.children("div").each: one child div.
DivStep(st, div) ==
    LET raw == norm(div.text)
        m   == ExpMatch(raw)
    IN  IF st.level = 0 /\ IsLevelText(raw)
        THEN [st EXCEPT !.level = parseInt(raw)]
        ELSE IF m.found
        THEN [st EXCEPT !.exp = parseInt(StripCommas(m.m1)),
                        !.max = parseInt(StripCommas(m.m2))]
        ELSE IF st.name = <<>> /\ raw # <<>> /\ ~isDash(raw) /\ HasLetter(raw)
        THEN [st EXCEPT !.name = raw,
                        !.tooltip = FirstTruthy(<<div.data_tooltip, div.title,
                                                  div.aria_label, raw>>)]
        ELSE st

\* $li.find("img").first().attr("src") || null; imgs holds the src of every
\* img of the item, "" for an img without one.
IconOf(imgs) == IF imgs = <<>> \/ imgs[1] = "" THEN NULL ELSE imgs[1]

\* The locals of parseLi before the loop.
ParseStart(item) ==
    [icon |-> IconOf(item.imgs), level |-> 0, name |-> <<>>, tooltip |-> <<>>,
     exp |-> 0, max |-> 0]

RECURSIVE ParseDivs(_, _, _)
ParseDivs(st, divs, i) ==
    IF i > Len(divs) THEN st ELSE ParseDivs(DivStep(st, divs[i]), divs, i + 1)

parseLi(item) == ParseDivs(ParseStart(item), item.divs, 1)

(***************************************************************************)
(* mapCategory                                                             *)
(***************************************************************************)
Lower(c) ==
    CASE c = "A" -> "a" [] c = "B" -> "b" [] c = "C" -> "c" [] c = "D" -> "d"
      [] c = "E" -> "e" [] c = "F" -> "f" [] c = "G" -> "g" [] c = "H" -> "h"
      [] c = "I" -> "i" [] c = "J" -> "j" [] c = "K" -> "k" [] c = "L" -> "l"
      [] c = "M" -> "m" [] c = "N" -> "n" [] c = "O" -> "o" [] c = "P" -> "p"
      [] c = "Q" -> "q" [] c = "R" -> "r" [] c = "S" -> "s" [] c = "T" -> "t"
      [] c = "U" -> "u" [] c = "V" -> "v" [] c = "W" -> "w" [] c = "X" -> "x"
      [] c = "Y" -> "y" [] c = "Z" -> "z" [] OTHER -> c

toLowerCase(s) == [i \in 1..Len(s) |-> Lower(s[i])]

\* t.includes(sub)
Includes(t, sub) ==
    \E i \in 0..(Len(t) - Len(sub)) : SubSeq(t, i + 1, i + Len(sub)) = sub

K_tank     == <<"t", "a", "n", "k">>
K_healer   == <<"h", "e", "a", "l", "e", "r">>
K_melee    == <<"m", "e", "l", "e", "e", " ", "d", "p", "s">>
K_physical == <<"p", "h", "y", "s", "i", "c", "a", "l", " ",
                "r", "a", "n", "g", "e", "d", " ", "d", "p", "s">>
K_magical  == <<"m", "a", "g", "i", "c", "a", "l", " ",
                "r", "a", "n", "g", "e", "d", " ", "d", "p", "s">>
K_limited  == <<"l", "i", "m", "i", "t", "e", "d">>
K_hand     == <<"h", "a", "n", "d">>
K_land     == <<"l", "a", "n", "d">>
K_doh      == <<"d", "i", "s", "c", "i", "p", "l", "e", "s", " ", "o", "f", " ",
                "t", "h", "e", " ", "h", "a", "n", "d">>
K_dol      == <<"d", "i", "s", "c", "i", "p", "l", "e", "s", " ", "o", "f", " ",
                "t", "h", "e", " ", "l", "a", "n", "d">>

\* The (group, key) pair of a label, or NULL.
mapCategory(t) ==
    IF Includes(t, K_tank) THEN <<"DoW/DoM", "Tank">>
    ELSE IF Includes(t, K_healer) THEN <<"DoW/DoM", "Healer">>
    ELSE IF Includes(t, K_melee) THEN <<"DoW/DoM", "Melee DPS">>
    ELSE IF Includes(t, K_physical) THEN <<"DoW/DoM", "Physical Ranged DPS">>
    ELSE IF Includes(t, K_magical) THEN <<"DoW/DoM", "Magical Ranged DPS">>
    ELSE IF Includes(t, K_limited) THEN <<"DoW/DoM", "Limited Jobs">>
    ELSE IF Includes(t, K_doh) \/ t = K_hand THEN <<"DoH/DoL", "Hand (DoH)">>
    ELSE IF Includes(t, K_dol) \/ t = K_land THEN <<"DoH/DoL", "Land (DoL)">>
    ELSE NULL

(***************************************************************************)
(* The handler's aggregation: the out literal and the h4s.each loop.       *)
(* A document is the texts of its .frame__chara__name and                  *)
(* .frame__chara__world elements and the sequence of sibling nodes that    *)
(* holds the h4 headers; a node is [tag, text, imgs, items].               *)
(***************************************************************************)
Groups == {"DoW/DoM", "DoH/DoL"}

KeysOf(group) ==
    IF group = "DoW/DoM"
    THEN {"Tank", "Healer", "Melee DPS", "Physical Ranged DPS",
          "Magical Ranged DPS", "Limited Jobs"}
    ELSE {"Hand (DoH)", "Land (DoL)"}

\* The 8 (group, key) pairs of the out literal.
Slots == {<<g, k>> : g \in {"DoW/DoM"}, k \in KeysOf("DoW/DoM")}
         \cup {<<g, k>> : g \in {"DoH/DoL"}, k \in KeysOf("DoH/DoL")}

\* $(sel).first().text() of the elements a selector finds.
FirstText(els) == IF els = <<>> THEN <<>> ELSE els[1]

\* The out literal.
InitOut(d) ==
    [k \in {"details"} \cup Groups |->
        IF k = "details"
        THEN [name |-> norm(FirstText(d.name_els)),
              world |-> norm(FirstText(d.world_els))]
        ELSE [c \in KeysOf(k) |-> [icon |-> NULL, jobs |-> <<>>]]]

\* $("h4"): the positions of the headers, in document order.
H4s(d) ==
    LET RECURSIVE Pos(_)
        Pos(i) == IF i > Len(d.body) THEN <<>>
                  ELSE IF d.body[i].tag = "h4" THEN <<i>> \o Pos(i + 1)
                  ELSE Pos(i + 1)
    IN  Pos(1)

\* $(h4).nextAll("ul").first(): the position of the first ul after node i, or 0.
NextUl(d, i) ==
    LET uls == {j \in (i + 1)..Len(d.body) : d.body[j].tag = "ul"}
    IN  IF uls = {} THEN 0 ELSE CHOOSE j \in uls : \A u \in uls : j <= u

\* The object pushed for a parsed item.
JobEntry(p) ==
    [job_icon         |-> p.icon,
     job_level        |-> p.level,
     job_name         |-> p.name,
     job_name_tooltip |-> IF p.tooltip # <<>> THEN p.tooltip ELSE p.name,
     job_exp          |-> p.exp,
     job_exp_max      |-> p.max]

\* The positions, in order, of the items of a list that parse to a name.
RECURSIVE NamedItems(_, _)
NamedItems(items, j) ==
    IF j > Len(items) THEN <<>>
    ELSE IF parseLi(items[j]).name # <<>> THEN <<j>> \o NamedItems(items, j + 1)
    ELSE NamedItems(items, j + 1)

\* ul.find("> li").each: what one list appends to a slot.
ListEntries(items) ==
    LET named == NamedItems(items, 1)
    IN  [n \in 1..Len(named) |-> JobEntry(parseLi(items[named[n]]))]

\* The callback with the slots an open collection: a label that maps to no
\* category gets a key of its own.
H4StepOpenKeys(o, d, i) ==
    LET h4     == d.body[i]
        target == mapCategory(toLowerCase(norm(h4.text)))
        group  == target[1]
        key    == target[2]
        catImg == IconOf(h4.imgs)
        o1     == IF catImg # NULL /\ o[group][key].icon = NULL
                  THEN [o EXCEPT ![group][key].icon = catImg]
                  ELSE o
        ul     == NextUl(d, i)
    IN  IF target = NULL
        THEN [k \in DOMAIN o \cup {"Other"} |->
                IF k \in DOMAIN o THEN o[k] ELSE [icon |-> catImg, jobs |-> <<>>]]
        ELSE IF ul = 0 THEN o1
        ELSE [o1 EXCEPT ![group][key].jobs = @ \o ListEntries(d.body[ul].items)]

\* The callback of h4s.each for the header at node i.
H4Step(o, d, i) ==
    LET h4     == d.body[i]
        target == mapCategory(toLowerCase(norm(h4.text)))
        group  == target[1]
        key    == target[2]
        catImg == IconOf(h4.imgs)
        o1     == IF catImg # NULL /\ o[group][key].icon = NULL
                  THEN [o EXCEPT ![group][key].icon = catImg]
                  ELSE o
        ul     == NextUl(d, i)
    IN  IF target = NULL THEN o
        ELSE IF ul = 0 THEN o1
        ELSE [o1 EXCEPT ![group][key].jobs = @ \o ListEntries(d.body[ul].items)]

\* out after the first n headers.
RECURSIVE AggregateTo(_, _)
AggregateTo(d, n) ==
    IF n = 0 THEN InitOut(d) ELSE H4Step(AggregateTo(d, n - 1), d, H4s(d)[n])

\* The Result the handler sends for a document.
Aggregate(d) == AggregateTo(d, Len(H4s(d)))

(***************************************************************************)
(* Inputs: texts, child divs, list items, nodes and documents              *)
(***************************************************************************)
T_zero      == <<"0">>
T_fifty     == <<"5", "0">>
T_seven     == <<" ", "7", "\n">>
T_dash      == <<"-">>
T_gladiator == <<"G", "l", "a", "d", "i", "a", "t", "o", "r">>
T_pld       == <<"P", "L", "D">>
T_paladin   == <<"P", "a", "l", "a", "d", "i", "n">>
T_war       == <<" ", "W", "A", "R", " ", " ">>
T_exp00     == <<"0", " ", "/", " ", "0">>
T_exp       == <<"1", ",", "2", "3", "4", " ", "/", " ", "5", ",", "6", "0", "0">>
T_exp2      == <<"9", "/", "1", "0">>

PlainDiv(t) == [text |-> t, data_tooltip |-> <<>>, title |-> <<>>, aria_label |-> <<>>]

TitledDiv(t, tip) == [text |-> t, data_tooltip |-> <<>>, title |-> tip, aria_label |-> <<>>]

\* The child divs the parser is run on.
DivPool ==
    {PlainDiv(T_zero), PlainDiv(T_fifty), PlainDiv(T_seven), PlainDiv(T_dash),
     PlainDiv(Mojibake), PlainDiv(T_gladiator), TitledDiv(T_pld, T_paladin),
     PlainDiv(T_exp00), PlainDiv(T_exp), PlainDiv(<<>>)}

\* The longest list of child divs of an item.
MaxDivs == 4

SeqsUpTo(S, n) == UNION {[1..k -> S] : k \in 0..n}

LiPool == [imgs : {<<>>, <<"job.png">>}, divs : SeqsUpTo(DivPool, MaxDivs)]

(***************************************************************************)
(* parseLi, one callback at a time                                         *)
(***************************************************************************)
ParseOff ==
    /\ li = [imgs |-> <<>>, divs |-> <<>>]
    /\ divIdx = 0
    /\ parsed = ParseStart([imgs |-> <<>>, divs |-> <<>>])
    /\ parsePc = "off"

ParseInit ==
    /\ li \in LiPool
    /\ divIdx = 0
    /\ parsed = ParseStart(li)
    /\ parsePc = "each"

\* One call of the callback of $li.children("div").each.
ParseDiv ==
    /\ parsePc = "each"
    /\ divIdx < Len(li.divs)
    /\ parsed' = DivStep(parsed, li.divs[divIdx + 1])
    /\ divIdx' = divIdx + 1
    /\ UNCHANGED <<li, parsePc, httpVars, aggVars, reconVars>>

\* return { icon, level, name, tooltip, exp, max }
ParseReturn ==
    /\ parsePc = "each"
    /\ divIdx = Len(li.divs)
    /\ parsePc' = "returned"
    /\ UNCHANGED <<li, divIdx, parsed, httpVars, aggVars, reconVars>>

(***************************************************************************)
(* The h4s.each loop, one header at a time                                 *)
(***************************************************************************)
Node(tag, text, imgs, items) == [tag |-> tag, text |-> text, imgs |-> imgs, items |-> items]

Item(imgs, texts) == [imgs |-> imgs, divs |-> [i \in 1..Len(texts) |-> PlainDiv(texts[i])]]

\* An unplayed job: level 0, placeholders, its real name.
LiGladiator == Item(<<"gla.png">>, <<T_zero, T_dash, T_gladiator, T_exp00>>)
LiPaladin   == [imgs |-> <<"pld.png">>,
                divs |-> <<PlainDiv(T_fifty), TitledDiv(T_pld, T_paladin), PlainDiv(T_exp)>>]
LiWarrior   == Item(<<>>, <<T_seven, T_war, T_exp2>>)
\* An item with no name: placeholders only.
LiNameless  == Item(<<"">>, <<T_dash, Mojibake, T_exp00>>)

H4Tank    == Node("h4", <<"T", "a", "n", "k">>, <<"tank.png">>, <<>>)
H4TankB   == Node("h4", <<" ", "T", "A", "N", "K", "\n", " ", "(", "2", ")">>, <<"tank2.png">>, <<>>)
H4Healer  == Node("h4", <<"H", "e", "a", "l", "e", "r">>, <<>>, <<>>)
\* "handy" holds "hand" but is neither "hand" nor a "disciples of the hand".
H4Handy   == Node("h4", <<"H", "a", "n", "d", "y">>, <<"hand.png">>, <<>>)
UlA       == Node("ul", <<>>, <<>>, <<LiGladiator, LiPaladin>>)
UlB       == Node("ul", <<>>, <<>>, <<LiNameless, LiWarrior>>)
Para      == Node("p", <<>>, <<>>, <<>>)

NodePool == {H4Tank, H4TankB, H4Healer, H4Handy, UlA, UlB, Para}

\* The longest sequence of sibling nodes of a document.
MaxNodes == 4

T_name  == <<" ", "A", "n", "n", " ", " ", "L", "e", "e", "\n">>
T_world == <<"G", "i", "l", "g", "a", "m", "e", "s", "h">>

\* Every document has two name elements and no world element.
DocPool ==
    {[name_els |-> <<T_name, T_world>>, world_els |-> <<>>, body |-> b] :
        b \in SeqsUpTo(NodePool, MaxNodes)}

\* The (node, item) places, in order, of what the callback pushes for header i.
H4Origins(d, i) ==
    LET ul    == NextUl(d, i)
        named == IF ul = 0 THEN <<>> ELSE NamedItems(d.body[ul].items, 1)
    IN  [n \in 1..Len(named) |-> <<ul, named[n]>>]

AggOff ==
    /\ doc = [name_els |-> <<>>, world_els |-> <<>>, body |-> <<>>]
    /\ h4Idx = 0
    /\ out = InitOut([name_els |-> <<>>, world_els |-> <<>>, body |-> <<>>])
    /\ origins = [s \in Slots |-> <<>>]

AggInit ==
    /\ doc \in DocPool
    /\ h4Idx = 0
    /\ out = InitOut(doc)
    /\ origins = [s \in Slots |-> <<>>]

\* One call of the callback of h4s.each.  origins records, per slot, the place
\* of the list item each pushed entry came from.
H4Each ==
    /\ h4Idx < Len(H4s(doc))
    /\ LET i      == H4s(doc)[h4Idx + 1]
           target == mapCategory(toLowerCase(norm(doc.body[i].text)))
       IN  /\ out' = H4Step(out, doc, i)
           /\ origins' = IF target = NULL THEN origins
                         ELSE [origins EXCEPT ![target] = @ \o H4Origins(doc, i)]
    /\ h4Idx' = h4Idx + 1
    /\ UNCHANGED <<doc, httpVars, parseVars, reconVars>>

(***************************************************************************)
(* reconstructFromViewSource.  A page is a sequence of lexemes: a tag      *)
(* (one string, "<...>"), a character reference (one string, "&...;") or a *)
(* single character.                                                       *)
(***************************************************************************)
\* The character references of the model and what he.decode makes of each.
Entities == {"&lt;", "&gt;", "&amp;", "&quot;", "&#10;"}

DecodeEntity(x) ==
    CASE x = "&lt;" -> "<" [] x = "&gt;" -> ">" [] x = "&amp;" -> "&"
      [] x = "&quot;" -> "\"" [] x = "&#10;" -> "\n" [] OTHER -> x

\* he.decode(text)
decode(t) == [i \in 1..Len(t) |-> DecodeEntity(t[i])]

\* A lexeme that /<[^>]+>/ matches.
IsTag(x) == Len(x) > 1 /\ x \notin Entities \cup CodePoints

\* inner.replace(/<[^>]+>/g, "")
StripTags(t) == SelectSeq(t, LAMBDA x : ~IsTag(x))

TdLineContent == "<td class=\"line-content\">"
TdLineNumber  == "<td class=\"line-number\">"
TdEnd         == "</td>"

\* The opening tags /<td[^>]*class=(?:"|')([^"']*line-content[^"']*)(?:"|')[^>]*>/ matches.
LineContentTags == {TdLineContent}

\* The first position >= i of a lexeme of S, or 0.
IndexFrom(t, i, S) ==
    LET hits == {j \in i..Len(t) : t[j] \in S}
    IN  IF hits = {} THEN 0 ELSE CHOOSE j \in hits : \A u \in hits : j <= u

\* cellRegex.exec(html) from position from: the leftmost opening tag that a
\* </td> follows, its content up to the first </td>, and the new lastIndex.
CellExec(t, from) ==
    LET close == {j \in from..Len(t) : t[j] = TdEnd}
        open  == {i \in from..Len(t) :
                    t[i] \in LineContentTags /\ \E j \in close : j > i}
        i0    == CHOOSE i \in open : \A u \in open : i <= u
        j0    == IndexFrom(t, i0 + 1, {TdEnd})
    IN  IF open = {} THEN [found |-> FALSE, inner |-> <<>>, next |-> 1]
        ELSE [found |-> TRUE, inner |-> SubSeq(t, i0 + 1, j0 - 1), next |-> j0 + 1]

\* What the loop body pushes for a match.
CellText(inner) == decode(StripTags(inner))

\* The cells joined with a space.
RECURSIVE JoinSpace(_)
JoinSpace(cs) ==
    IF cs = <<>> THEN <<>>
    ELSE IF Len(cs) = 1 THEN cs[1]
    ELSE cs[1] \o <<" ">> \o JoinSpace(Tail(cs))

\* cells.join("\n")
RECURSIVE Join(_)
Join(cs) ==
    IF cs = <<>> THEN <<>>
    ELSE IF Len(cs) = 1 THEN cs[1]
    ELSE cs[1] \o <<"\n">> \o Join(Tail(cs))

\* The value returned once the loop has ended.
ReconResult(t, cs) == IF Len(cs) = 0 THEN t ELSE Join(cs)

RECURSIVE CollectCells(_, _, _)
CollectCells(t, from, cs) ==
    LET m == CellExec(t, from)
    IN  IF m.found THEN CollectCells(t, m.next, Append(cs, CellText(m.inner)))
        ELSE cs

reconstructFromViewSource(t) == ReconResult(t, CollectCells(t, 1, <<>>))

\* The lexemes the reconstructor is run on, and the longest page.
LexemePool == {TdLineContent, TdLineNumber, TdEnd, "<span>", "&lt;", "a", "\n"}

MaxLexemes == 6

ReconOff ==
    /\ html = <<>>
    /\ lastIndex = 1
    /\ cells = <<>>
    /\ rawHtml = <<>>
    /\ reconPc = "off"

ReconInit ==
    /\ html \in SeqsUpTo(LexemePool, MaxLexemes)
    /\ lastIndex = 1
    /\ cells = <<>>
    /\ rawHtml = <<>>
    /\ reconPc = "while"

\* One pass of the while loop: an exec that matches, and the push.
ReconExec ==
    /\ reconPc = "while"
    /\ CellExec(html, lastIndex).found
    /\ cells' = Append(cells, CellText(CellExec(html, lastIndex).inner))
    /\ lastIndex' = CellExec(html, lastIndex).next
    /\ UNCHANGED <<html, rawHtml, reconPc, httpVars, parseVars, aggVars>>

\* The exec that returns null, and the return.
ReconReturn ==
    /\ reconPc = "while"
    /\ ~CellExec(html, lastIndex).found
    /\ rawHtml' = ReconResult(html, cells)
    /\ lastIndex' = 1
    /\ reconPc' = "returned"
    /\ UNCHANGED <<html, cells, httpVars, parseVars, aggVars>>

(***************************************************************************)
(* cheerio.load and the selectors the handler uses, on the markup the      *)
(* model's pages are written in: h4, ul > li > div, img, p.                *)
(***************************************************************************)
RECURSIVE Concat(_)
Concat(cs) == IF cs = <<>> THEN "" ELSE Head(cs) \o Concat(Tail(cs))

\* The tokenizer: the characters from a "<" that opens a tag to the next ">"
\* are one tag.
RECURSIVE Lex(_)
Lex(t) ==
    IF t = <<>> THEN <<>>
    ELSE LET j == IndexFrom(t, 2, {">"})
         IN  IF t[1] = "<" /\ Len(t) >= 2 /\ t[2] \in Letters \cup {"/"} /\ j # 0
             THEN <<Concat(SubSeq(t, 1, j))>> \o Lex(SubSeq(t, j + 1, Len(t)))
             ELSE <<t[1]>> \o Lex(Tail(t))

PName  == "<p class=\"frame__chara__name\">"
PWorld == "<p class=\"frame__chara__world\">"
ImgTank == "<img src=\"tank.png\">"
ImgPld  == "<img src=\"pld.png\">"
DivPaladin == "<div title=\"Paladin\">"

ParaTags == {"<p>", PName, PWorld}
DivTags  == {"<div>", DivPaladin}
ImgTags  == {"<img>", ImgTank, ImgPld}

\* .attr("src") of an img tag; "" when it has none.
SrcOf(tag) ==
    CASE tag = ImgTank -> "tank.png" [] tag = ImgPld -> "pld.png" [] OTHER -> ""

\* .attr("title") of a div tag; <<>> when it has none.
TitleOf(tag) == IF tag = DivPaladin THEN T_paladin ELSE <<>>

\* The position of the closing tag of the element opened at i, or the end.
EndOf(t, i, close) ==
    LET j == IndexFrom(t, i + 1, {close}) IN IF j = 0 THEN Len(t) + 1 ELSE j

\* .text() of the content t[a..b]: its characters, references undecoded.
TextIn(t, a, b) == StripTags(SubSeq(t, a, b))

\* The src of every img in t[a..b].
ImgsIn(t, a, b) ==
    LET tags == SelectSeq(SubSeq(t, a, b), LAMBDA x : x \in ImgTags)
    IN  [n \in 1..Len(tags) |-> SrcOf(tags[n])]

\* The text of every element opened by tag open, in document order.
RECURSIVE ElementTexts(_, _, _, _)
ElementTexts(t, i, open, close) ==
    IF i > Len(t) THEN <<>>
    ELSE IF t[i] = open
    THEN <<TextIn(t, i + 1, EndOf(t, i, close) - 1)>>
         \o ElementTexts(t, EndOf(t, i, close) + 1, open, close)
    ELSE ElementTexts(t, i + 1, open, close)

RECURSIVE LoadDivs(_, _)
LoadDivs(u, i) ==
    IF i > Len(u) THEN <<>>
    ELSE IF u[i] \in DivTags
    THEN <<[text |-> TextIn(u, i + 1, EndOf(u, i, "</div>") - 1),
            data_tooltip |-> <<>>, title |-> TitleOf(u[i]), aria_label |-> <<>>]>>
         \o LoadDivs(u, EndOf(u, i, "</div>") + 1)
    ELSE LoadDivs(u, i + 1)

RECURSIVE LoadItems(_, _)
LoadItems(u, i) ==
    IF i > Len(u) THEN <<>>
    ELSE IF u[i] = "<li>"
    THEN <<[imgs |-> ImgsIn(u, i + 1, EndOf(u, i, "</li>") - 1),
            divs |-> LoadDivs(SubSeq(u, i + 1, EndOf(u, i, "</li>") - 1), 1)]>>
         \o LoadItems(u, EndOf(u, i, "</li>") + 1)
    ELSE LoadItems(u, i + 1)

RECURSIVE LoadNodes(_, _)
LoadNodes(t, i) ==
    IF i > Len(t) THEN <<>>
    ELSE IF t[i] = "<h4>"
    THEN <<Node("h4", TextIn(t, i + 1, EndOf(t, i, "</h4>") - 1),
                ImgsIn(t, i + 1, EndOf(t, i, "</h4>") - 1), <<>>)>>
         \o LoadNodes(t, EndOf(t, i, "</h4>") + 1)
    ELSE IF t[i] = "<ul>"
    THEN <<Node("ul", <<>>, <<>>,
                LoadItems(SubSeq(t, i + 1, EndOf(t, i, "</ul>") - 1), 1))>>
         \o LoadNodes(t, EndOf(t, i, "</ul>") + 1)
    ELSE IF t[i] \in ParaTags
    THEN <<Node("p", <<>>, <<>>, <<>>)>> \o LoadNodes(t, EndOf(t, i, "</p>") + 1)
    ELSE LoadNodes(t, i + 1)

\* cheerio.load(rawHtml, { decodeEntities: false }), as the document the
\* handler's selectors see.
Load(t) ==
    LET x == Lex(t)
    IN  [name_els  |-> ElementTexts(x, 1, PName, "</p>"),
         world_els |-> ElementTexts(x, 1, PWorld, "</p>"),
         body      |-> LoadNodes(x, 1)]

(***************************************************************************)
(* The route handler                                                       *)
(***************************************************************************)
\* The characters encodeURIComponent leaves as they are.
Unreserved == Letters \cup Digits \cup {"-", "_", ".", "!", "~", "*", "'", "(", ")"}

EncodeChar(c) ==
    IF c \in Unreserved THEN <<c>>
    ELSE CASE c = " "  -> <<"%", "2", "0">>
           [] c = "/"  -> <<"%", "2", "F">>
           [] c = "\t" -> <<"%", "0", "9">>
           [] c = "\n" -> <<"%", "0", "A">>
           [] c = "?"  -> <<"%", "3", "F">>
           [] c = "#"  -> <<"%", "2", "3">>
           [] c = "%"  -> <<"%", "2", "5">>

RECURSIVE encodeURIComponent(_)
encodeURIComponent(s) ==
    IF s = <<>> THEN <<>> ELSE EncodeChar(Head(s)) \o encodeURIComponent(Tail(s))

\* The template literal of the upstream URL.
UrlOf(id) ==
    <<"https://na.finalfantasyxiv.com/lodestone/character/">>
    \o encodeURIComponent(id) \o <<"/class_job/">>

\* The id taken without the trim.
IdOfUntrimmed(character) == character

\* (req.params.character || "").trim()
IdOf(character) == trim(character)

\* res.status(400).json({ error: "Missing character ID." })
MissingIdResponse ==
    [status |-> 400, cacheControl |-> NULL,
     body |-> [error |-> <<"Missing character ID.">>]]

\* The catch block answering with the message alone.
CatchResponseNoUrl(err, u) ==
    [status |-> 502, cacheControl |-> NULL,
     body |-> [error |-> IF err.status # 0 THEN <<"Upstream returned HTTP", err.status>>
                         ELSE IF err.code = "ECONNABORTED" THEN <<"Request timed out">>
                         ELSE <<"Fetch/parse failed">>]]

\* The catch block: err.response?.status, then err.code.
CatchResponse(err, u) ==
    [status |-> 502, cacheControl |-> NULL,
     body |-> [error |-> IF err.status # 0 THEN <<"Upstream returned HTTP", err.status>>
                         ELSE IF err.code = "ECONNABORTED" THEN <<"Request timed out">>
                         ELSE <<"Fetch/parse failed">>,
               url   |-> u]]

\* res.set("Cache-Control", "no-store"); res.json(out)
SuccessResponse(o) == [status |-> 200, cacheControl |-> "no-store", body |-> o]

\* The handler from the await on, for what axios.get settled with.  An
\* exception thrown between the await and res.json reaches the catch block
\* with neither response nor code.
Continue(settled, u) ==
    IF settled.kind = "resolved"
    THEN IF settled.throws
         THEN CatchResponse([status |-> 0, code |-> "thrown"], u)
         ELSE SuccessResponse(Aggregate(Load(reconstructFromViewSource(settled.data))))
    ELSE CatchResponse(settled, u)

\* The pages upstream answers with.
Esc(chars) == <<"&lt;">> \o chars \o <<"&gt;">>

PagePlain ==
    <<PName>> \o T_name \o <<"</p>", "\n", "<h4>", ImgTank, "T", "a", "n", "k", "</h4>", "\n",
      "<p>", "x", "</p>", "<ul>",
      "<li>", ImgPld, "<div>">> \o T_fifty \o <<"</div>", DivPaladin>> \o T_pld
    \o <<"</div>", "<div>">> \o T_exp \o <<"</div>", "</li>",
      "<li>", "<div>", "-", "</div>", "</li>", "</ul>">>

\* A view-source rendering of
\*   <h4>Healer</h4>
\*   <ul><li><div>0</div><div>WHM</div></li></ul>
PageViewSource ==
    <<"<table>", "<tr>", TdLineNumber, TdEnd, TdLineContent, "<span>">>
    \o Esc(<<"h", "4">>) \o <<"</span>", "H", "e", "a", "l", "e", "r", "<span>">>
    \o Esc(<<"/", "h", "4">>) \o <<"</span>", TdEnd, "</tr>", "\n",
         "<tr>", TdLineNumber, TdEnd, TdLineContent>>
    \o Esc(<<"u", "l">>) \o Esc(<<"l", "i">>)
    \o Esc(<<"d", "i", "v">>) \o <<"0">> \o Esc(<<"/", "d", "i", "v">>)
    \o Esc(<<"d", "i", "v">>) \o <<"W", "H", "M">> \o Esc(<<"/", "d", "i", "v">>)
    \o Esc(<<"/", "l", "i">>) \o Esc(<<"/", "u", "l">>)
    \o <<TdEnd, "</tr>", "</table>">>

\* A page with no header at all.
PageBare == <<"o", "k">>

PagePool == {PagePlain, PageViewSource, PageBare}

Resolved(data, throws) ==
    [kind |-> "resolved", status |-> 200, code |-> "", data |-> data, throws |-> throws]

\* A rejection: err.response.status (0 when there is no response) and err.code.
Rejected(status, code) ==
    [kind |-> "rejected", status |-> status, code |-> code, data |-> <<>>, throws |-> FALSE]

Unsettled == [kind |-> "none", status |-> 0, code |-> "", data |-> <<>>, throws |-> FALSE]

SettledPool ==
    {Resolved(b, FALSE) : b \in PagePool}
    \cup {Resolved(PagePlain, TRUE),
          Rejected(404, "ERR_BAD_REQUEST"), Rejected(503, "ERR_BAD_RESPONSE"),
          Rejected(0, "ECONNABORTED"), Rejected(0, "ECONNREFUSED")}

\* The values of the path parameter: Express never routes an empty one here.
CharacterPool ==
    {<<" ">>, <<"\t", " ">>, <<"1", "2", "3">>, <<" ", "4", "/", "5", " ">>}

\* The requests the server handles at once.
MaxRequests == 2

Requests == 1..MaxRequests

NoResponse == [status |-> 0, cacheControl |-> NULL, body |-> [error |-> <<>>]]

HttpInit ==
    /\ pc = [r \in Requests |-> "idle"]
    /\ params = [r \in Requests |-> <<>>]
    /\ url = [r \in Requests |-> <<>>]
    /\ upstream = [r \in Requests |-> Unsettled]
    /\ res = [r \in Requests |-> NoResponse]
    /\ fetchStarted = {}

\* resp kept in one variable of the module: a handler that resumes reads
\* what some request's axios.get settled with, not always its own.
RespOfShared(r) == upstream[CHOOSE q \in Requests : pc[q] = "settled"]

\* The local resp of request r's handler: what its own axios.get settled with.
RespOf(r) == upstream[r]

\* The handler up to the await: the validation, the url, the call of axios.get.
Receive(r, character) ==
    /\ pc[r] = "idle"
    /\ params' = [params EXCEPT ![r] = character]
    /\ IF IdOf(character) = <<>>
       THEN /\ res' = [res EXCEPT ![r] = MissingIdResponse]
            /\ pc' = [pc EXCEPT ![r] = "responded"]
            /\ UNCHANGED <<url, fetchStarted>>
       ELSE /\ url' = [url EXCEPT ![r] = UrlOf(IdOf(character))]
            /\ fetchStarted' = fetchStarted \cup {r}
            /\ pc' = [pc EXCEPT ![r] = "awaiting"]
            /\ UNCHANGED res
    /\ UNCHANGED <<upstream, parseVars, aggVars, reconVars>>

\* axios.get of request r settles: a page, a status outside 2xx, a timeout
\* or a transport error.
Settle(r, s) ==
    /\ pc[r] = "awaiting"
    /\ upstream' = [upstream EXCEPT ![r] = s]
    /\ pc' = [pc EXCEPT ![r] = "settled"]
    /\ UNCHANGED <<params, url, res, fetchStarted, parseVars, aggVars, reconVars>>

\* The handler from the await to its response, run to completion.
Resume(r) ==
    /\ pc[r] = "settled"
    /\ res' = [res EXCEPT ![r] = Continue(RespOf(r), url[r])]
    /\ pc' = [pc EXCEPT ![r] = "responded"]
    /\ UNCHANGED <<params, url, upstream, fetchStarted, parseVars, aggVars, reconVars>>

(***************************************************************************)
(* Specifications                                                          *)
(***************************************************************************)
Init == HttpInit /\ ParseOff /\ AggOff /\ ReconOff

Next ==
    \/ \E r \in Requests, c \in CharacterPool : Receive(r, c)
    \/ \E r \in Requests, s \in SettledPool : Settle(r, s)
    \/ \E r \in Requests : Resume(r)

\* The server with its requests in flight.
Spec == Init /\ [][Next]_vars

HttpOff ==
    /\ pc = [r \in Requests |-> "off"]
    /\ params = [r \in Requests |-> <<>>]
    /\ url = [r \in Requests |-> <<>>]
    /\ upstream = [r \in Requests |-> Unsettled]
    /\ res = [r \in Requests |-> NoResponse]
    /\ fetchStarted = {}

InitParse == HttpOff /\ ParseInit /\ AggOff /\ ReconOff

NextParse == ParseDiv \/ ParseReturn

\* parseLi on every item of LiPool.
SpecParse == InitParse /\ [][NextParse]_vars

InitAgg == HttpOff /\ ParseOff /\ AggInit /\ ReconOff

NextAgg == H4Each

\* The aggregation loop on every document of DocPool.
SpecAgg == InitAgg /\ [][NextAgg]_vars

InitRecon == HttpOff /\ ParseOff /\ AggOff /\ ReconInit

NextRecon == ReconExec \/ ReconReturn

\* reconstructFromViewSource on every page of at most MaxLexemes lexemes.
SpecRecon == InitRecon /\ [][NextRecon]_vars

(***************************************************************************)
(* Properties of the route handler (Spec)                                  *)
(***************************************************************************)
Responded(r) == pc[r] = "responded"

\* The request's path identifier is empty once trimmed.
BlankId(r) == trim(params[r]) = <<>>

\* The request's fetch or its parsing failed.
FetchFailed(r) ==
    /\ ~BlankId(r)
    /\ upstream[r].kind = "rejected" \/ (upstream[r].kind = "resolved" /\ upstream[r].throws)

\* C1: a request whose path identifier is empty or only whitespace once
\* trimmed is answered with the input-validation failure (status 400 and a
\* message), and no upstream fetch is ever started or settled for it.
C1_BlankIdRejectedBeforeFetch ==
    \A r \in Requests :
        (pc[r] \notin {"idle", "off"} /\ BlankId(r)) =>
            /\ Responded(r)
            /\ res[r].status = 400
            /\ res[r].body.error # <<>>
            /\ r \notin fetchStarted
            /\ upstream[r] = Unsettled

\* C1 witness: a whitespace-only identifier was received and answered while
\* another request's fetch was started.
C1_Witness ==
    \E r, q \in Requests :
        /\ Responded(r) /\ Len(params[r]) > 0 /\ BlankId(r)
        /\ q \in fetchStarted

\* C2 as stated: every failed request (validation, upstream status, transport
\* error, timeout, parse failure) is answered with the gateway status 502 and
\* a body holding a message and the attempted upstream URL.
C2_EveryFailureIsGatewayErrorWithUrl ==
    \A r \in Requests :
        (Responded(r) /\ (BlankId(r) \/ FetchFailed(r))) =>
            /\ res[r].status = 502
            /\ {"error", "url"} \subseteq DOMAIN res[r].body

\* C2 amended: a failure of the fetch or of the parsing is answered with 502
\* and a body holding a message and the URL built from the trimmed identifier;
\* the input-validation failure is answered with 400 and a body holding the
\* message alone.
C2_FetchFailureIsGatewayErrorWithUrl ==
    \A r \in Requests :
        /\ (Responded(r) /\ FetchFailed(r)) =>
              /\ res[r].status = 502
              /\ DOMAIN res[r].body = {"error", "url"}
              /\ res[r].body.error # <<>>
              /\ res[r].body.url = UrlOf(trim(params[r]))
        /\ (Responded(r) /\ BlankId(r)) =>
              /\ res[r].status = 400
              /\ DOMAIN res[r].body = {"error"}
              /\ res[r].body.error # <<>>

\* C2 witness: one request failed its validation and another its fetch.
C2_Witness ==
    \E r, q \in Requests :
        /\ Responded(r) /\ BlankId(r)
        /\ Responded(q) /\ FetchFailed(q) /\ upstream[q].code = "ECONNABORTED"

\* C3 as stated: every response sent, the Result or an error body, carries
\* Cache-Control: no-store.
C3_EveryResponseNoStore ==
    \A r \in Requests : Responded(r) => res[r].cacheControl = "no-store"

\* What the handler answers to a request that runs alone: a function of its
\* own path parameter and of what its own fetch settled with.
AloneResponse(character, settled) ==
    IF trim(character) = <<>> THEN MissingIdResponse
    ELSE IF settled.kind = "rejected" \/ settled.throws
    THEN [status |-> 502, cacheControl |-> NULL,
          body |-> [error |-> IF settled.kind = "rejected" /\ settled.status # 0
                              THEN <<"Upstream returned HTTP", settled.status>>
                              ELSE IF settled.kind = "rejected" /\ settled.code = "ECONNABORTED"
                              THEN <<"Request timed out">>
                              ELSE <<"Fetch/parse failed">>,
                    url |-> UrlOf(trim(character))]]
    ELSE [status |-> 200, cacheControl |-> "no-store",
          body |-> Aggregate(Load(reconstructFromViewSource(settled.data)))]

\* C4: with several requests in flight and their fetches settling and
\* resuming in any order, each response is the one the request would get
\* alone from its own parameter and its own fetched page, and a request not
\* yet answered has no response.
C4_ResponsesIndependent ==
    \A r \in Requests :
        /\ Responded(r) => res[r] = AloneResponse(params[r], upstream[r])
        /\ ~Responded(r) => res[r] = NoResponse
        /\ pc[r] \in {"awaiting", "settled"} => url[r] = UrlOf(trim(params[r]))

\* C4 witness: two requests were in flight together and both were answered
\* with a Result, each from a different page.
C4_Witness ==
    /\ \A r \in Requests : Responded(r) /\ res[r].status = 200
    /\ \E r, q \in Requests : upstream[r].data # upstream[q].data

(***************************************************************************)
(* Properties of the aggregation (SpecAgg)                                 *)
(***************************************************************************)
\* A usable name: not empty, not a placeholder, with a letter.
NameOk(t) == t # <<>> /\ t # <<"-">> /\ t # Mojibake /\ \E i \in 1..Len(t) : t[i] \in Letters

JobsOf(s) == out[s[1]][s[2]].jobs

\* The headers the loop has processed, as node positions.
Processed == {H4s(doc)[k] : k \in 1..h4Idx}

SlotOfHeader(i) == mapCategory(toLowerCase(norm(doc.body[i].text)))

\* An unplayed job's item: a sub-block "0", one sub-block that is a name, and
\* nothing else but placeholders and experience pairs without letters.
LevelZeroItem(item) ==
    LET raw(n) == norm(item.divs[n].text)
        names  == {n \in 1..Len(item.divs) : NameOk(raw(n)) /\ ~ExpMatch(raw(n)).found}
    IN  /\ Cardinality(names) = 1
        /\ \E n \in 1..Len(item.divs) : raw(n) = <<"0">>
        /\ \A n \in 1..Len(item.divs) :
              \/ n \in names
              \/ raw(n) = <<"0">>
              \/ raw(n) \in {<<"-">>, Mojibake}
              \/ (ExpMatch(raw(n)).found /\ ~\E i \in 1..Len(raw(n)) : raw(n)[i] \in Letters)

NameOfItem(item) ==
    norm(item.divs[CHOOSE n \in 1..Len(item.divs) :
                      NameOk(norm(item.divs[n].text))
                      /\ ~ExpMatch(norm(item.divs[n].text)).found].text)

\* C5: every job entry of every slot has a job_name that is not empty, not a
\* placeholder and holds a letter; no entry comes from a list item without
\* such a sub-block; and an item with level "0", placeholders and its name
\* has its entry, with that name and level 0, in the slot of every header
\* whose list holds it.
C5_EntriesCarryRealNames ==
    /\ \A s \in Slots :
          /\ Len(origins[s]) = Len(JobsOf(s))
          /\ \A n \in 1..Len(JobsOf(s)) :
                /\ NameOk(JobsOf(s)[n].job_name)
                /\ LET item == doc.body[origins[s][n][1]].items[origins[s][n][2]]
                   IN  \E k \in 1..Len(item.divs) : NameOk(norm(item.divs[k].text))
    /\ \A i \in Processed :
          (SlotOfHeader(i) # NULL /\ NextUl(doc, i) # 0) =>
              \A j \in 1..Len(doc.body[NextUl(doc, i)].items) :
                  LET item == doc.body[NextUl(doc, i)].items[j]
                  IN  LevelZeroItem(item) =>
                        \E n \in 1..Len(JobsOf(SlotOfHeader(i))) :
                            /\ origins[SlotOfHeader(i)][n] = <<NextUl(doc, i), j>>
                            /\ JobsOf(SlotOfHeader(i))[n].job_name = NameOfItem(item)
                            /\ JobsOf(SlotOfHeader(i))[n].job_level = 0

\* C5 witness: a slot holds the level-0 entry of an unplayed job, and a list
\* with a nameless item was processed and gave only its named item.
C5_Witness ==
    /\ \E s \in Slots : \E n \in 1..Len(JobsOf(s)) :
          /\ JobsOf(s)[n].job_level = 0
          /\ JobsOf(s)[n].job_name = T_gladiator
    /\ \E i \in Processed :
          /\ SlotOfHeader(i) # NULL /\ NextUl(doc, i) # 0
          /\ doc.body[NextUl(doc, i)] = UlB
          /\ \E n \in 1..Len(origins[SlotOfHeader(i)]) :
                origins[SlotOfHeader(i)][n] = <<NextUl(doc, i), 2>>
          /\ \A n \in 1..Len(origins[SlotOfHeader(i)]) :
                origins[SlotOfHeader(i)][n] # <<NextUl(doc, i), 1>>

\* The 8 slots, written out.
C6_Keys ==
    /\ DOMAIN out = {"details", "DoW/DoM", "DoH/DoL"}
    /\ DOMAIN out["DoW/DoM"] = {"Tank", "Healer", "Melee DPS", "Physical Ranged DPS",
                                "Magical Ranged DPS", "Limited Jobs"}
    /\ DOMAIN out["DoH/DoL"] = {"Hand (DoH)", "Land (DoL)"}
    /\ Cardinality(Slots) = 8
    /\ \A s \in Slots : DOMAIN out[s[1]][s[2]] = {"icon", "jobs"}
    /\ h4Idx = 0 => \A s \in Slots : out[s[1]][s[2]] = [icon |-> NULL, jobs |-> <<>>]

\* C6: whatever the headers and their order, the Result holds exactly the 8
\* fixed slots, each empty with a null icon before the first header; and the
\* callback of a header whose label maps to no category changes nothing of
\* the Result.
C6_ClosedSlotsAndFrame ==
    /\ []C6_Keys
    /\ [][(h4Idx' = h4Idx + 1 /\ SlotOfHeader(H4s(doc)[h4Idx + 1]) = NULL) => out' = out]_vars

\* C6 witness: a header with an unknown label (and an image of its own) was
\* just processed after a header that filled a slot.
C6_Witness ==
    /\ h4Idx >= 2
    /\ SlotOfHeader(H4s(doc)[h4Idx]) = NULL
    /\ doc.body[H4s(doc)[h4Idx]].imgs # <<>>
    /\ NextUl(doc, H4s(doc)[h4Idx]) # 0
    /\ \E s \in Slots : JobsOf(s) # <<>>

\* The place <<node, item>> a is not after the place b in the document.
NotAfter(a, b) == a[1] < b[1] \/ (a[1] = b[1] /\ a[2] <= b[2])

\* C7 as stated: once every header is processed, the entries of each slot are
\* in the document order of the list items they came from.
C7_SlotEntriesInDocumentOrder ==
    h4Idx = Len(H4s(doc)) =>
        \A s \in Slots : \A a, b \in 1..Len(origins[s]) :
            a < b => NotAfter(origins[s][a], origins[s][b])

(***************************************************************************)
(* Properties of reconstructFromViewSource (SpecRecon)                     *)
(***************************************************************************)
\* The lines of a text: its pieces between line breaks.
RECURSIVE Lines(_)
Lines(t) ==
    LET n == IndexFrom(t, 1, {"\n"})
    IN  IF n = 0 THEN <<t>>
        ELSE <<SubSeq(t, 1, n - 1)>> \o Lines(SubSeq(t, n + 1, Len(t)))

\* Where cell i starts in the cells laid out one after another, one
\* separator between two.
RECURSIVE StartOf(_, _)
StartOf(cs, i) == IF i = 1 THEN 1 ELSE StartOf(cs, i - 1) + Len(cs[i - 1]) + 1

\* The content of the k-th line-content cell of a page, as the claim words
\* it: what stands between the opening tag and the first </td> after it,
\* without its tags and with its references resolved.
RECURSIVE CellBounds(_, _)
CellBounds(t, from) ==
    LET opens == {i \in from..Len(t) : t[i] = TdLineContent
                                        /\ \E j \in (i + 1)..Len(t) : t[j] = TdEnd}
        i0    == CHOOSE i \in opens : \A u \in opens : i <= u
        j0    == CHOOSE j \in (i0 + 1)..Len(t) :
                    t[j] = TdEnd /\ \A u \in (i0 + 1)..(j - 1) : t[u] # TdEnd
    IN  IF opens = {} THEN <<>> ELSE <<<<i0, j0>>>> \o CellBounds(t, j0 + 1)

Resolve(x) ==
    IF x = "&lt;" THEN "<" ELSE IF x = "&gt;" THEN ">" ELSE IF x = "&amp;" THEN "&"
    ELSE IF x = "&quot;" THEN "\"" ELSE IF x = "&#10;" THEN "\n" ELSE x

CellContent(t, b) ==
    LET inner == SelectSeq(SubSeq(t, b[1] + 1, b[2] - 1),
                           LAMBDA x : x \notin {TdLineContent, TdLineNumber, TdEnd, "<span>"})
    IN  [n \in 1..Len(inner) |-> Resolve(inner[n])]

Returned == reconPc = "returned"

\* C8 as stated: for a page with N line-content cells the result has exactly
\* N lines, the i-th being the i-th cell's content with its tags stripped and
\* its references decoded; for a page with none the result is the page.
C8_ExactlyNLines ==
    Returned =>
        LET b == CellBounds(html, 1)
        IN  IF Len(b) = 0 THEN rawHtml = html
            ELSE Lines(rawHtml) = [i \in 1..Len(b) |-> CellContent(html, b[i])]

\* C8 amended: for a page with N line-content cells the result is the N
\* contents (tags stripped, references decoded) in page order with one line
\* break between two, which is exactly N lines when no content holds a line
\* break of its own; for a page with none the result is the page.
C8_CellsJoinedByLineBreaks ==
    Returned =>
        LET b == CellBounds(html, 1)
            c == [i \in 1..Len(b) |-> CellContent(html, b[i])]
        IN  IF Len(b) = 0 THEN rawHtml = html /\ cells = <<>>
            ELSE /\ cells = c
                 /\ Len(rawHtml) = StartOf(c, Len(c)) + Len(c[Len(c)]) - 1
                 /\ \A i \in 1..Len(c) :
                       /\ SubSeq(rawHtml, StartOf(c, i), StartOf(c, i) + Len(c[i]) - 1) = c[i]
                       /\ i > 1 => rawHtml[StartOf(c, i) - 1] = "\n"
                 /\ (\A i \in 1..Len(c) : \A n \in 1..Len(c[i]) : c[i][n] # "\n")
                       => Lines(rawHtml) = c

\* C8 witness: a page of two cells, one with a tag to strip and a reference
\* to decode, has been reconstructed into two lines.
C8_Witness ==
    /\ Returned
    /\ Len(cells) = 2
    /\ \E n \in 1..Len(html) : html[n] = "<span>"
    /\ \E n \in 1..Len(rawHtml) : rawHtml[n] = "<"
    /\ Len(Lines(rawHtml)) = 2

(***************************************************************************)
(* Properties of parseLi (SpecParse)                                       *)
(***************************************************************************)
\* The sub-blocks, in order, whose normalized text is 1 to 3 digits.
LevelBlocks(item) ==
    {n \in 1..Len(item.divs) :
        LET t == norm(item.divs[n].text)
        IN  Len(t) \in 1..3 /\ \A i \in 1..Len(t) : t[i] \in Digits}

\* The sub-blocks whose text matches digits / digits.
ExpBlocks(item) == {n \in 1..Len(item.divs) : ExpMatch(norm(item.divs[n].text)).found}

First(S) == CHOOSE n \in S : \A m \in S : n <= m

\* C9 as stated: the level returned is the value of the first sub-block whose
\* normalized text is 1 to 3 digits, also when that value is 0, and 0 when
\* there is none.
C9_LevelIsFirstDigitBlock ==
    parsePc = "returned" =>
        parsed.level = IF LevelBlocks(li) = {} THEN 0
                       ELSE parseInt(norm(li.divs[First(LevelBlocks(li))].text))

\* C10 as stated: the experience and its cap returned are those of the first
\* sub-block matching digits / digits, separators stripped, and 0 and 0 when
\* there is none.
C10_ExpIsFirstPair ==
    parsePc = "returned" =>
        LET m == ExpMatch(norm(li.divs[First(ExpBlocks(li))].text))
        IN  IF ExpBlocks(li) = {} THEN parsed.exp = 0 /\ parsed.max = 0
            ELSE /\ parsed.exp = parseInt(StripCommas(m.m1))
                 /\ parsed.max = parseInt(StripCommas(m.m2))

====
